---- MODULE Spec2Model ----
(***************************************************************************)
(* Model of src/main.py: the SuperTrend alert bot.                         *)
(*                                                                         *)
(* Two execution contexts share the TradingBot object (last_signal,        *)
(* is_running): the daemon thread running TradingBot.auto_check, and the   *)
(* main thread, which starts that thread, sends the startup message and    *)
(* then dispatches the command handlers from bot.infinity_polling.         *)
(* The exchange, the indicator library and the Telegram client are         *)
(* external: each call's outcome is an input chosen with \E.               *)
(***************************************************************************)
EXTENDS Integers, Sequences, FiniteSets, TLC

VARIABLES
    pc,           \* position of the main thread
    lpc,          \* position of the auto_check thread
    config_ok,    \* TOKEN and CHAT_ID are both set
    last_signal,  \* TradingBot.last_signal
    is_running,   \* TradingBot.is_running
    cur,          \* auto_check's local current_signal
    iter,         \* record of the polling iteration in progress / last finished
    slept,        \* duration of the last time.sleep of auto_check (0: none yet)
    notes,        \* directions of the automatic notifications delivered, in order
    req,          \* record of the command request in progress / last finished
    afterStop,    \* progress of the loop relative to a stop() request
    startNotes,   \* number of "bot started" notifications delivered
    nIter,        \* polling iterations begun
    nReq,         \* command requests dispatched
    nDup,         \* polling iterations that suppressed a repeated direction
    nErr          \* polling iterations that ended in the except clause

vars == <<pc, lpc, config_ok, last_signal, is_running, cur, iter, slept,
          notes, req, afterStop, startNotes, nIter, nReq, nDup, nErr>>

(* ---------------------------- bounds ----------------------------------- *)
MaxIter == 3
MaxReq == 1

(* ------------------------- program constants --------------------------- *)
CHECK_INTERVAL == 900
RECOVERY_INTERVAL == 60

Prices == {100}
Directions == {"BUY", "SELL"}

\* Python's None for a signal_data dict
None == [direction |-> "None", price |-> 0, timestamp |-> 0]

\* What the exchange and the indicator do during one get_signal call
Outcomes ==
    [kind : {"network_error", "exchange_error", "other_error", "empty", "no_indicator"},
     last_direction : {0}, close : {0}]
    \cup [kind : {"ok"}, last_direction : {1, -1}, close : Prices]

\* Outcomes of one call on the Telegram client
SendOutcomes == {"ok", "raise"}

Commands == {"start", "status", "info", "help"}

(* --------------------------- pure helpers ------------------------------ *)

\* 'BUY' if last_direction == 1 else 'SELL'
DirectionOf(last_direction) == IF last_direction = 1 THEN "BUY" ELSE "SELL"

\* get_signal without the `except ccxt.NetworkError` clause
GetSignal_propagates(o, now) ==
    CASE o.kind = "network_error"  -> [ret |-> None, raised |-> TRUE, logs |-> <<>>]
      [] o.kind = "exchange_error" -> [ret |-> None, raised |-> FALSE, logs |-> <<"error">>]
      [] o.kind = "other_error"    -> [ret |-> None, raised |-> FALSE, logs |-> <<"error">>]
      [] o.kind = "empty"          -> [ret |-> None, raised |-> FALSE, logs |-> <<"warning">>]
      [] o.kind = "no_indicator"   -> [ret |-> None, raised |-> FALSE, logs |-> <<"warning">>]
      [] OTHER ->
            [ret |-> [direction |-> IF o.last_direction = 1 THEN "BUY" ELSE "SELL",
                      price |-> o.close, timestamp |-> now],
             raised |-> FALSE, logs |-> <<"info">>]

\* TradingBot.get_signal: value returned, whether an exception left the
\* function, and the log records written (by level).  `now` stands for
\* datetime.now(): it identifies the evaluation (the iteration number for
\* the loop, minus the request number for /status).
GetSignal(o, now) ==
    CASE o.kind = "network_error"  -> [ret |-> None, raised |-> FALSE, logs |-> <<"error">>]
      [] o.kind = "exchange_error" -> [ret |-> None, raised |-> FALSE, logs |-> <<"error">>]
      [] o.kind = "other_error"    -> [ret |-> None, raised |-> FALSE, logs |-> <<"error">>]
      [] o.kind = "empty"          -> [ret |-> None, raised |-> FALSE, logs |-> <<"warning">>]
      [] o.kind = "no_indicator"   -> [ret |-> None, raised |-> FALSE, logs |-> <<"warning">>]
      [] OTHER ->
            [ret |-> [direction |-> DirectionOf(o.last_direction),
                      price |-> o.close, timestamp |-> now],
             raised |-> FALSE, logs |-> <<"info">>]

\* `if current_signal:` -- a non-empty dict is truthy, None is not
Truthy(s) == s # None

\* the condition without the comparison of directions
ShouldNotify_always(c, ls) == c # None

\* the condition of lines 107-109
ShouldNotify(c, ls) ==
    Truthy(c) /\ (ls = None \/ c.direction # ls.direction)

\* the daemon thread runs only while the process does
Alive == pc \notin {"config", "failed", "exit"}

NoIter == [n |-> 0, kind |-> "none", prev |-> None, cur |-> None, evals |-> 0,
           sends |-> 0, delivered |-> 0, errlogs |-> 0, stored |-> FALSE,
           raised |-> FALSE, logs |-> <<>>]
\* the text /info shows when no signal is stored ('Нет данных')
NoData == "no data"

NoReq == [cmd |-> "none", reply |-> "none", escaped |-> FALSE, done |-> TRUE,
          kind |-> "none", sig |-> None, raised |-> FALSE, logs |-> <<>>,
          running |-> FALSE, last |-> "none", errlogs |-> 0]

(* ------------------------------ Init ----------------------------------- *)
Init ==
    /\ pc = "config"
    /\ lpc = "idle"
    /\ config_ok \in BOOLEAN
    /\ last_signal = None
    /\ is_running = FALSE
    /\ cur = None
    /\ iter = NoIter
    /\ slept = 0
    /\ notes = <<>>
    /\ req = NoReq
    /\ afterStop = "none"
    /\ startNotes = 0
    /\ nIter = 0
    /\ nReq = 0
    /\ nDup = 0
    /\ nErr = 0

(* ------------------------ the auto_check thread ------------------------ *)

\* line 100-101: self.is_running = True
LoopEntry ==
    /\ Alive /\ lpc = "entry"
    /\ is_running' = TRUE
    /\ lpc' = "check"
    /\ UNCHANGED <<pc, config_ok, last_signal, cur, iter, slept, notes, req,
                   afterStop, startNotes, nIter, nReq, nDup, nErr>>

\* line 103: while self.is_running
LoopCheck ==
    /\ Alive /\ lpc = "check"
    /\ lpc' = IF is_running THEN "eval" ELSE "exited"
    /\ UNCHANGED <<pc, config_ok, last_signal, is_running, cur, iter, slept,
                   notes, req, afterStop, startNotes, nIter, nReq, nDup, nErr>>

\* line 105: current_signal = self.get_signal()
LoopEval ==
    /\ Alive /\ lpc = "eval" /\ nIter < MaxIter
    /\ \E o \in Outcomes :
        LET r == GetSignal(o, nIter + 1) IN
        /\ iter' = [NoIter EXCEPT !.n = nIter + 1, !.kind = o.kind,
                                  !.prev = last_signal,
                                  !.cur = IF r.raised THEN None ELSE r.ret,
                                  !.evals = 1, !.raised = r.raised,
                                  !.logs = r.logs]
        /\ cur' = IF r.raised THEN cur ELSE r.ret
        /\ nErr' = IF r.raised THEN nErr + 1 ELSE nErr
        /\ lpc' = IF r.raised THEN "except" ELSE "decide"
    /\ nIter' = nIter + 1
    /\ UNCHANGED <<pc, config_ok, last_signal, is_running, slept, notes, req,
                   afterStop, startNotes, nReq, nDup>>

\* the decision with `self.last_signal = current_signal` moved out of the if
LoopDecide_storeAlways ==
    /\ pc \notin {"config", "failed", "exit"} /\ lpc = "decide"
    /\ lpc' = IF cur # None /\ (last_signal = None \/ cur.direction # last_signal.direction)
              THEN "send" ELSE "sleep"
    /\ last_signal' = cur
    /\ nDup' = IF cur # None /\ last_signal # None /\ cur.direction = last_signal.direction
               THEN nDup + 1 ELSE nDup
    /\ UNCHANGED <<pc, config_ok, is_running, cur, iter, slept,
                   notes, req, afterStop, startNotes, nIter, nReq, nErr>>

\* lines 107-109: the two tests
LoopDecide ==
    /\ Alive /\ lpc = "decide"
    /\ lpc' = IF ShouldNotify(cur, last_signal) THEN "send" ELSE "sleep"
    /\ nDup' = IF Truthy(cur) /\ ~ShouldNotify(cur, last_signal) THEN nDup + 1 ELSE nDup
    /\ UNCHANGED <<pc, config_ok, last_signal, is_running, cur, iter, slept,
                   notes, req, afterStop, startNotes, nIter, nReq, nErr>>

\* `self.last_signal = current_signal` placed before the send
LoopSend_storesFirst ==
    /\ pc \notin {"config", "failed", "exit"} /\ lpc = "send"
    /\ \E s \in SendOutcomes :
        /\ iter' = [iter EXCEPT !.sends = @ + 1,
                                !.delivered = IF s = "ok" THEN @ + 1 ELSE @]
        /\ notes' = IF s = "ok" THEN Append(notes, cur.direction) ELSE notes
        /\ lpc' = IF s = "ok" THEN "store" ELSE "except"
        /\ nErr' = IF s = "ok" THEN nErr ELSE nErr + 1
    /\ last_signal' = cur
    /\ UNCHANGED <<pc, config_ok, is_running, cur, slept, req,
                   afterStop, startNotes, nIter, nReq, nDup>>

\* lines 110-111: format the message and bot.send_message(CHAT_ID, ...)
LoopSend ==
    /\ Alive /\ lpc = "send"
    /\ \E s \in SendOutcomes :
        /\ iter' = [iter EXCEPT !.sends = @ + 1,
                                !.delivered = IF s = "ok" THEN @ + 1 ELSE @]
        /\ notes' = IF s = "ok" THEN Append(notes, cur.direction) ELSE notes
        /\ lpc' = IF s = "ok" THEN "store" ELSE "except"
        /\ nErr' = IF s = "ok" THEN nErr ELSE nErr + 1
    /\ UNCHANGED <<pc, config_ok, last_signal, is_running, cur, slept, req,
                   afterStop, startNotes, nIter, nReq, nDup>>

\* the store guarded by `if self.last_signal is None`
LoopStore_firstOnly ==
    /\ pc \notin {"config", "failed", "exit"} /\ lpc = "store"
    /\ last_signal' = IF last_signal = None THEN cur ELSE last_signal
    /\ iter' = [iter EXCEPT !.stored = TRUE]
    /\ lpc' = "sleep"
    /\ UNCHANGED <<pc, config_ok, is_running, cur, slept, notes, req,
                   afterStop, startNotes, nIter, nReq, nDup, nErr>>

\* the store updating the stored dict key by key instead of replacing it
LoopStore_fieldwise ==
    /\ pc \notin {"config", "failed", "exit"} /\ lpc = "store"
    /\ last_signal' = IF last_signal = None THEN cur
                      ELSE [last_signal EXCEPT !.direction = cur.direction]
    /\ iter' = [iter EXCEPT !.stored = TRUE]
    /\ lpc' = "sleep"
    /\ UNCHANGED <<pc, config_ok, is_running, cur, slept, notes, req,
                   afterStop, startNotes, nIter, nReq, nDup, nErr>>

\* lines 112-113: self.last_signal = current_signal
LoopStore ==
    /\ Alive /\ lpc = "store"
    /\ last_signal' = cur
    /\ iter' = [iter EXCEPT !.stored = TRUE]
    /\ lpc' = "sleep"
    /\ UNCHANGED <<pc, config_ok, is_running, cur, slept, notes, req,
                   afterStop, startNotes, nIter, nReq, nDup, nErr>>

\* the normal path sleeping the recovery interval
LoopSleep_short ==
    /\ pc \notin {"config", "failed", "exit"} /\ lpc = "sleep"
    /\ slept' = 60
    /\ afterStop' = IF afterStop = "stopped" THEN "slept" ELSE afterStop
    /\ lpc' = "check"
    /\ UNCHANGED <<pc, config_ok, last_signal, is_running, cur, iter, notes,
                   req, startNotes, nIter, nReq, nDup, nErr>>

\* line 115: time.sleep(CHECK_INTERVAL)
LoopSleep ==
    /\ Alive /\ lpc = "sleep"
    /\ slept' = CHECK_INTERVAL
    /\ afterStop' = IF afterStop = "stopped" THEN "slept" ELSE afterStop
    /\ lpc' = "check"
    /\ UNCHANGED <<pc, config_ok, last_signal, is_running, cur, iter, notes,
                   req, startNotes, nIter, nReq, nDup, nErr>>

\* the try statement placed around the while loop: an exception ends the loop
LoopExcept_exits ==
    /\ pc \notin {"config", "failed", "exit"} /\ lpc = "except"
    /\ iter' = [iter EXCEPT !.errlogs = @ + 1]
    /\ lpc' = "exited"
    /\ UNCHANGED <<pc, config_ok, last_signal, is_running, cur, slept, notes,
                   req, afterStop, startNotes, nIter, nReq, nDup, nErr>>

\* the except clause clearing the running flag
LoopExcept_stops ==
    /\ pc \notin {"config", "failed", "exit"} /\ lpc = "except"
    /\ iter' = [iter EXCEPT !.errlogs = @ + 1]
    /\ is_running' = FALSE
    /\ lpc' = "sleep60"
    /\ UNCHANGED <<pc, config_ok, last_signal, cur, slept, notes,
                   req, afterStop, startNotes, nIter, nReq, nDup, nErr>>

\* the except clause forgetting the stored signal
LoopExcept_clears ==
    /\ pc \notin {"config", "failed", "exit"} /\ lpc = "except"
    /\ iter' = [iter EXCEPT !.errlogs = @ + 1]
    /\ last_signal' = [direction |-> "None", price |-> 0, timestamp |-> 0]
    /\ lpc' = "sleep60"
    /\ UNCHANGED <<pc, config_ok, is_running, cur, slept, notes,
                   req, afterStop, startNotes, nIter, nReq, nDup, nErr>>

\* lines 117-118: except Exception: logger.error(...)
LoopExcept ==
    /\ Alive /\ lpc = "except"
    /\ iter' = [iter EXCEPT !.errlogs = @ + 1]
    /\ lpc' = "sleep60"
    /\ UNCHANGED <<pc, config_ok, last_signal, is_running, cur, slept, notes,
                   req, afterStop, startNotes, nIter, nReq, nDup, nErr>>

\* the recovery sleep taking the check interval
LoopSleep60_long ==
    /\ pc \notin {"config", "failed", "exit"} /\ lpc = "sleep60"
    /\ slept' = 900
    /\ afterStop' = IF afterStop = "stopped" THEN "slept" ELSE afterStop
    /\ lpc' = "check"
    /\ UNCHANGED <<pc, config_ok, last_signal, is_running, cur, iter, notes,
                   req, startNotes, nIter, nReq, nDup, nErr>>

\* the recovery sleep followed by a return from auto_check
LoopSleep60_returns ==
    /\ pc \notin {"config", "failed", "exit"} /\ lpc = "sleep60"
    /\ slept' = 60
    /\ afterStop' = IF afterStop = "stopped" THEN "slept" ELSE afterStop
    /\ lpc' = "exited"
    /\ UNCHANGED <<pc, config_ok, last_signal, is_running, cur, iter, notes,
                   req, startNotes, nIter, nReq, nDup, nErr>>

\* line 119: time.sleep(60)
LoopSleep60 ==
    /\ Alive /\ lpc = "sleep60"
    /\ slept' = RECOVERY_INTERVAL
    /\ afterStop' = IF afterStop = "stopped" THEN "slept" ELSE afterStop
    /\ lpc' = "check"
    /\ UNCHANGED <<pc, config_ok, last_signal, is_running, cur, iter, notes,
                   req, startNotes, nIter, nReq, nDup, nErr>>

(* --------------------------- the main thread --------------------------- *)

\* lines 26-27: if not TOKEN or not CHAT_ID: raise ValueError
ConfigCheck ==
    /\ pc = "config"
    /\ pc' = IF config_ok THEN "boot" ELSE "failed"
    /\ UNCHANGED <<lpc, config_ok, last_signal, is_running, cur, iter, slept,
                   notes, req, afterStop, startNotes, nIter, nReq, nDup, nErr>>

\* lines 202-203: Thread(target=trading_bot.auto_check, daemon=True).start()
StartThread ==
    /\ pc = "boot"
    /\ lpc' = "entry"
    /\ pc' = "started"
    /\ UNCHANGED <<config_ok, last_signal, is_running, cur, iter, slept, notes,
                   req, afterStop, startNotes, nIter, nReq, nDup, nErr>>

\* the startup message wrapped in its own try/except: pass
StartupSend_swallows ==
    /\ pc = "started"
    /\ \E s \in SendOutcomes :
        /\ startNotes' = IF s = "ok" THEN startNotes + 1 ELSE startNotes
        /\ pc' = "listening"
    /\ UNCHANGED <<lpc, config_ok, last_signal, is_running, cur, iter, slept,
                   notes, req, afterStop, nIter, nReq, nDup, nErr>>

\* lines 206-214: the startup message, then bot.infinity_polling
StartupSend ==
    /\ pc = "started"
    /\ \E s \in SendOutcomes :
        /\ startNotes' = IF s = "ok" THEN startNotes + 1 ELSE startNotes
        /\ pc' = IF s = "ok" THEN "listening" ELSE "crit"
    /\ UNCHANGED <<lpc, config_ok, last_signal, is_running, cur, iter, slept,
                   notes, req, afterStop, nIter, nReq, nDup, nErr>>

\* lines 216-217: KeyboardInterrupt raised inside the try block
KeyboardInterrupt ==
    /\ pc \in {"boot", "started", "listening"}
    /\ pc' = "kbi"
    /\ UNCHANGED <<lpc, config_ok, last_signal, is_running, cur, iter, slept,
                   notes, req, afterStop, startNotes, nIter, nReq, nDup, nErr>>

\* lines 121-124, called at line 218: self.is_running = False
Stop ==
    /\ pc = "kbi"
    /\ is_running' = FALSE
    /\ afterStop' = IF lpc # "idle" /\ afterStop = "none" THEN "stopped" ELSE afterStop
    /\ pc' = "kbi_send"
    /\ UNCHANGED <<lpc, config_ok, last_signal, cur, iter, slept, notes, req,
                   startNotes, nIter, nReq, nDup, nErr>>

\* line 219: bot.send_message(CHAT_ID, "stopped"); the process ends either way
StopSend ==
    /\ pc = "kbi_send"
    /\ \E s \in SendOutcomes : pc' = "exit"
    /\ UNCHANGED <<lpc, config_ok, last_signal, is_running, cur, iter, slept,
                   notes, req, afterStop, startNotes, nIter, nReq, nDup, nErr>>

\* lines 220-225: except Exception: log, best-effort send, fall off the end
Critical ==
    /\ pc = "crit"
    /\ \E s \in SendOutcomes : pc' = "exit"
    /\ UNCHANGED <<lpc, config_ok, last_signal, is_running, cur, iter, slept,
                   notes, req, afterStop, startNotes, nIter, nReq, nDup, nErr>>

\* line 214: the listener hands one inbound command to its handler
Dispatch ==
    /\ pc = "listening" /\ nReq < MaxReq
    /\ \E c \in Commands :
        /\ req' = [NoReq EXCEPT !.cmd = c, !.done = FALSE]
        /\ pc' = CASE c = "start"  -> "h_start"
                   [] c = "status" -> "st_wait"
                   [] c = "info"   -> "in_run"
                   [] OTHER        -> "h_help"
    /\ nReq' = nReq + 1
    /\ UNCHANGED <<lpc, config_ok, last_signal, is_running, cur, iter, slept,
                   notes, afterStop, startNotes, nIter, nDup, nErr>>

\* the end of a handler: a reply was delivered, or the exception left the handler
Finish(rq, s, text) ==
    [rq EXCEPT !.done = TRUE,
               !.reply = IF s = "ok" THEN text ELSE @,
               !.escaped = (s # "ok")]

\* a handler's exception reaching the try block of __main__
Start_propagates ==
    /\ pc = "h_start"
    /\ \E s \in SendOutcomes :
        /\ req' = Finish(req, s, "welcome")
        /\ pc' = IF s = "ok" THEN "listening" ELSE "crit"
    /\ UNCHANGED <<lpc, config_ok, last_signal, is_running, cur, iter, slept,
                   notes, afterStop, startNotes, nIter, nReq, nDup, nErr>>

\* lines 130-143: start
Start ==
    /\ pc = "h_start"
    /\ \E s \in SendOutcomes : req' = Finish(req, s, "welcome")
    /\ pc' = "listening"
    /\ UNCHANGED <<lpc, config_ok, last_signal, is_running, cur, iter, slept,
                   notes, afterStop, startNotes, nIter, nReq, nDup, nErr>>

\* lines 178-194: help_command
HelpCommand ==
    /\ pc = "h_help"
    /\ \E s \in SendOutcomes : req' = Finish(req, s, "help")
    /\ pc' = "listening"
    /\ UNCHANGED <<lpc, config_ok, last_signal, is_running, cur, iter, slept,
                   notes, afterStop, startNotes, nIter, nReq, nDup, nErr>>

\* line 148: the "fetching data" message of status
StatusWait ==
    /\ pc = "st_wait"
    /\ \E s \in SendOutcomes : pc' = IF s = "ok" THEN "st_eval" ELSE "st_err"
    /\ UNCHANGED <<lpc, config_ok, last_signal, is_running, cur, iter, slept,
                   notes, req, afterStop, startNotes, nIter, nReq, nDup, nErr>>

\* status keeping the signal it evaluated in the tracker
StatusEval_stores ==
    /\ pc = "st_eval"
    /\ \E o \in Outcomes :
        LET r == GetSignal(o, 0 - nReq) IN
        /\ req' = [req EXCEPT !.kind = o.kind,
                              !.sig = IF r.raised THEN @ ELSE r.ret,
                              !.raised = r.raised, !.logs = r.logs]
        /\ last_signal' = IF r.ret # None THEN r.ret ELSE last_signal
        /\ pc' = IF r.raised THEN "st_err" ELSE "st_send"
    /\ UNCHANGED <<lpc, config_ok, is_running, cur, iter, slept, notes,
                   afterStop, startNotes, nIter, nReq, nDup, nErr>>

\* line 149: signal_data = trading_bot.get_signal()
StatusEval ==
    /\ pc = "st_eval"
    /\ \E o \in Outcomes :
        LET r == GetSignal(o, 0 - nReq) IN
        /\ req' = [req EXCEPT !.kind = o.kind,
                              !.sig = IF r.raised THEN @ ELSE r.ret,
                              !.raised = r.raised, !.logs = r.logs]
        /\ pc' = IF r.raised THEN "st_err" ELSE "st_send"
    /\ UNCHANGED <<lpc, config_ok, last_signal, is_running, cur, iter, slept, notes,
                   afterStop, startNotes, nIter, nReq, nDup, nErr>>

\* lines 151-158: the formatted signal, or the "unavailable" text
StatusSend ==
    /\ pc = "st_send"
    /\ \E s \in SendOutcomes :
        IF s = "ok"
        THEN /\ req' = Finish(req, s, IF Truthy(req.sig) THEN "signal" ELSE "unavailable")
             /\ pc' = "listening"
        ELSE /\ req' = req
             /\ pc' = "st_err"
    /\ UNCHANGED <<lpc, config_ok, last_signal, is_running, cur, iter, slept,
                   notes, afterStop, startNotes, nIter, nReq, nDup, nErr>>

\* lines 159-164: except Exception: log, then send the error text
StatusError ==
    /\ pc = "st_err"
    /\ \E s \in SendOutcomes :
        req' = Finish([req EXCEPT !.errlogs = @ + 1], s, "error")
    /\ pc' = "listening"
    /\ UNCHANGED <<lpc, config_ok, last_signal, is_running, cur, iter, slept,
                   notes, afterStop, startNotes, nIter, nReq, nDup, nErr>>

\* line 173: the read of trading_bot.is_running
InfoRunning ==
    /\ pc = "in_run"
    /\ req' = [req EXCEPT !.running = is_running]
    /\ pc' = "in_test"
    /\ UNCHANGED <<lpc, config_ok, last_signal, is_running, cur, iter, slept,
                   notes, afterStop, startNotes, nIter, nReq, nDup, nErr>>

\* line 174, first read: ... if trading_bot.last_signal else 'no data'
InfoTest ==
    /\ pc = "in_test"
    /\ IF Truthy(last_signal)
       THEN /\ req' = req
            /\ pc' = "in_dir"
       ELSE /\ req' = [req EXCEPT !.last = NoData]
            /\ pc' = "in_reply"
    /\ UNCHANGED <<lpc, config_ok, last_signal, is_running, cur, iter, slept,
                   notes, afterStop, startNotes, nIter, nReq, nDup, nErr>>

\* line 174, second read: trading_bot.last_signal['direction']
InfoDirection ==
    /\ pc = "in_dir"
    /\ IF last_signal = None
       THEN \* None['direction'] raises TypeError, which leaves the handler
            /\ req' = Finish(req, "raise", "info")
            /\ pc' = "listening"
       ELSE /\ req' = [req EXCEPT !.last = last_signal.direction]
            /\ pc' = "in_reply"
    /\ UNCHANGED <<lpc, config_ok, last_signal, is_running, cur, iter, slept,
                   notes, afterStop, startNotes, nIter, nReq, nDup, nErr>>

\* line 176: bot.reply_to(message, info_text)
InfoReply ==
    /\ pc = "in_reply"
    /\ \E s \in SendOutcomes : req' = Finish(req, s, "info")
    /\ pc' = "listening"
    /\ UNCHANGED <<lpc, config_ok, last_signal, is_running, cur, iter, slept,
                   notes, afterStop, startNotes, nIter, nReq, nDup, nErr>>

(* ------------------------- the specification --------------------------- *)
Next ==
    \/ LoopEntry \/ LoopCheck \/ LoopEval \/ LoopDecide \/ LoopSend
    \/ LoopStore \/ LoopSleep \/ LoopExcept \/ LoopSleep60
    \/ ConfigCheck \/ StartThread \/ StartupSend \/ KeyboardInterrupt
    \/ Stop \/ StopSend \/ Critical \/ Dispatch
    \/ Start \/ HelpCommand
    \/ StatusWait \/ StatusEval \/ StatusSend \/ StatusError
    \/ InfoRunning \/ InfoTest \/ InfoDirection \/ InfoReply

Spec == Init /\ [][Next]_vars

(* ------------------- the loop running without a stop ------------------- *)

\* line 105 again, once MaxIter iterations are recorded: the evaluation is
\* the same, and the records of the past (iteration numbers, notes, nDup,
\* nErr) start over, so that the loop can run forever in a finite model
LoopEvalWrap ==
    /\ Alive /\ lpc = "eval" /\ nIter = MaxIter
    /\ \E o \in Outcomes :
        LET r == GetSignal(o, 1) IN
        /\ iter' = [NoIter EXCEPT !.n = 1, !.kind = o.kind,
                                  !.prev = last_signal,
                                  !.cur = IF r.raised THEN None ELSE r.ret,
                                  !.evals = 1, !.raised = r.raised,
                                  !.logs = r.logs]
        /\ cur' = IF r.raised THEN cur ELSE r.ret
        /\ nErr' = IF r.raised THEN 1 ELSE 0
        /\ lpc' = IF r.raised THEN "except" ELSE "decide"
    /\ nIter' = 1
    /\ notes' = <<>>
    /\ nDup' = 0
    /\ UNCHANGED <<pc, config_ok, last_signal, is_running, slept, req,
                   afterStop, startNotes, nReq>>

\* the steps of the auto_check thread
LoopStep ==
    \/ LoopEntry \/ LoopCheck \/ LoopEval \/ LoopEvalWrap \/ LoopDecide
    \/ LoopSend \/ LoopStore \/ LoopSleep \/ LoopExcept \/ LoopSleep60

\* the program while no stop is requested and no command arrives
LiveNext ==
    \/ LoopEntry \/ LoopCheck \/ LoopEval \/ LoopEvalWrap \/ LoopDecide
    \/ LoopSend \/ LoopStore \/ LoopSleep \/ LoopExcept \/ LoopSleep60
    \/ ConfigCheck \/ StartThread \/ StartupSend \/ Critical

\* The thread is scheduled whenever it can take a step (weak fairness), and
\* a send that is attempted again and again eventually returns normally
\* (strong fairness on the successful outcome of line 111).
LiveSpec ==
    /\ Init
    /\ [][LiveNext]_vars
    /\ WF_vars(LoopStep)
    /\ SF_vars(LoopSend /\ lpc' = "store")

(* ---------------------- calls on the shared clients -------------------- *)

\* A thread positioned at a statement that calls a client is in that call
\* until the action modelling the statement has fired: nothing in the code
\* orders the call of one thread with respect to the other thread.

\* calls of exchange.fetch_ohlcv (line 45) in progress
ExchangeCalls ==
    (IF lpc = "eval" /\ Alive THEN 1 ELSE 0) + (IF pc = "st_eval" THEN 1 ELSE 0)

\* calls of bot.send_message / bot.reply_to in progress
BotCalls ==
    (IF lpc = "send" /\ Alive THEN 1 ELSE 0)
    + (IF pc \in {"started", "kbi_send", "crit", "h_start", "h_help", "st_wait",
                  "st_send", "st_err", "in_reply"} THEN 1 ELSE 0)

(* ------------------------------ claims --------------------------------- *)

\* the loop positions at which the decision of lines 107-109 of the current
\* iteration has been taken and its send, if any, has been made
Settled == lpc \in {"store", "sleep", "except", "sleep60", "check", "eval", "exited"}

\* C1: in every polling iteration the loop calls the notification send
\* exactly once if the iteration's evaluation returned a Signal and either
\* no signal was stored or the stored direction differs, and not at all
\* otherwise (no signal, or the same direction as the stored one); a
\* notification is never delivered without that condition.
C1_NotifyIffDirectionChange ==
    /\ iter.sends <= 1
    /\ iter.delivered <= iter.sends
    /\ (iter.n > 0 /\ Settled) =>
          (iter.sends = 1 <=>
              (/\ iter.cur # None
               /\ (iter.prev = None \/ iter.cur.direction # iter.prev.direction)))
    /\ (iter.n > 0 /\ lpc \in {"decide", "send"}) => iter.sends = 0
    /\ lpc = "send" =>
          (/\ iter.cur # None
           /\ (iter.prev = None \/ iter.cur.direction # iter.prev.direction))

\* C1 witness: a first signal was announced, and a later iteration whose
\* signal repeats the stored direction ended without a send
C1_Witness ==
    /\ lpc = "sleep" /\ iter.n >= 2
    /\ Len(notes) = 1
    /\ iter.cur # None /\ iter.prev # None
    /\ iter.cur.direction = iter.prev.direction
    /\ iter.sends = 0

\* C2: every step of a polling iteration whose evaluation returned None
\* leaves last_signal and is_running unchanged, makes no send and delivers
\* no notification.
C2_NoSignalNoChange ==
    [][ ( /\ lpc' # lpc
          /\ \/ lpc = "eval" /\ iter'.cur = None
             \/ lpc \in {"decide", "sleep"} /\ iter.cur = None )
        => ( /\ last_signal' = last_signal
             /\ is_running' = is_running
             /\ notes' = notes
             /\ iter'.sends = 0
             /\ lpc' # "send" ) ]_vars

\* C2 witness: an iteration without a signal has finished while a signal
\* stored by an earlier iteration is still there
C2_Witness ==
    /\ lpc = "check" /\ iter.n >= 2
    /\ iter.cur = None /\ iter.sends = 0
    /\ last_signal # None /\ is_running
    /\ slept = 900

\* C3: a call of get_signal, from the loop or from /status, never raises;
\* it returns None for every outcome but a computed indicator, writes
\* exactly one log record (an error record for the three exception
\* classes, a warning for the two empty results) and changes neither
\* last_signal nor is_running.
C3_GetSignalNeverRaises ==
    [][ /\ (lpc = "eval" /\ lpc' # lpc) =>
              /\ ~iter'.raised /\ lpc' = "decide"
              /\ Len(iter'.logs) = 1
              /\ (cur' # None <=> iter'.kind = "ok")
              /\ (iter'.kind \in {"network_error", "exchange_error", "other_error"}
                    => iter'.logs = <<"error">>)
              /\ (iter'.kind \in {"empty", "no_indicator"}
                    => iter'.logs = <<"warning">>)
              /\ last_signal' = last_signal /\ is_running' = is_running
        /\ (pc = "st_eval" /\ pc' # pc) =>
              /\ ~req'.raised /\ pc' = "st_send"
              /\ Len(req'.logs) = 1
              /\ (req'.sig # None <=> req'.kind = "ok")
              /\ (req'.kind \in {"network_error", "exchange_error", "other_error"}
                    => req'.logs = <<"error">>)
              /\ (req'.kind \in {"empty", "no_indicator"}
                    => req'.logs = <<"warning">>)
              /\ last_signal' = last_signal /\ is_running' = is_running ]_vars

\* C3 witness: the loop's evaluation met a network error and the loop goes
\* on with "no signal"
C3_Witness ==
    /\ lpc = "decide" /\ ~iter.raised
    /\ iter.kind = "network_error" /\ iter.logs = <<"error">> /\ cur = None

\* C4: a send that raises inside the iteration leads to the except clause,
\* which logs once and sleeps 60 seconds; the loop then tests the flag and,
\* if it is set, starts another iteration; the loop ends only when it finds
\* the flag cleared.
C4_LoopSurvivesExceptions ==
    [][ /\ (lpc = "send" /\ lpc' \notin {"send", "store"}) => lpc' = "except"
        /\ (lpc = "except" /\ lpc' # lpc) =>
              (lpc' = "sleep60" /\ iter'.errlogs = iter.errlogs + 1)
        /\ (lpc = "sleep60" /\ lpc' # lpc) => (lpc' = "check" /\ slept' = 60)
        /\ (lpc = "check" /\ lpc' # lpc /\ is_running) => lpc' = "eval"
        /\ (lpc' = "exited" /\ lpc # "exited") => ~is_running ]_vars

\* C4 witness: two iterations in a row ended in the except clause and the
\* loop is about to evaluate a third time
C4_Witness ==
    /\ lpc = "eval" /\ is_running
    /\ iter.n = 2 /\ iter.sends = 1 /\ iter.delivered = 0 /\ iter.errlogs = 1
    /\ notes = <<>> /\ nErr = 2
    /\ slept = 60

\* C5: is_running goes from true to false only in stop(), and the loop
\* leaves `while self.is_running` only from the test of the flag, finding
\* it false after a stop request.
C5_OnlyStopStops ==
    [][ /\ (is_running /\ ~is_running') => (pc = "kbi" /\ pc' = "kbi_send")
        /\ (lpc' = "exited" /\ lpc # "exited") =>
              (lpc = "check" /\ ~is_running /\ afterStop # "none") ]_vars

\* C5 witness: the loop ran at least one iteration and ended after stop()
C5_Witness ==
    /\ lpc = "exited" /\ ~is_running /\ iter.n >= 1
    /\ pc = "kbi_send"

\* C6 (as claimed): once stop() has been called after the thread was
\* started and the loop has since finished a sleep, the loop performs no
\* further evaluation and no further send.
C6_NoActivityAfterStop ==
    afterStop = "slept" => lpc \in {"check", "eval", "exited"}

\* C7 (as claimed): after an iteration whose evaluation met a network or
\* exchange error, the sleep the loop took was the 60-second one.
C7_TransportErrorSleeps60 ==
    (lpc = "check" /\ iter.n > 0
       /\ iter.kind \in {"network_error", "exchange_error"}) => slept = 60

\* C7 (amended): an iteration whose evaluation met a network or exchange
\* error logs one error record inside get_signal, does not enter the loop's
\* except clause, sleeps the 900-second check interval and does not end
\* the loop.
C7_TransportErrorSleepsCheckInterval ==
    /\ (lpc = "check" /\ iter.n > 0
          /\ iter.kind \in {"network_error", "exchange_error"})
        => (slept = 900 /\ iter.logs = <<"error">> /\ iter.errlogs = 0
            /\ iter.sends = 0)
    /\ (iter.kind \in {"network_error", "exchange_error"})
        => lpc \in {"decide", "sleep", "check", "eval", "exited"}
    /\ (lpc = "exited" /\ iter.kind \in {"network_error", "exchange_error"})
        => ~is_running

\* C7 witness: after a network error and the check-interval sleep the loop
\* has passed the flag test and is about to evaluate again
C7_Witness ==
    /\ lpc = "eval" /\ is_running
    /\ iter.n >= 1 /\ iter.kind = "network_error"
    /\ slept = 900

\* C8 (as claimed): every finished /status request has delivered the
\* signal, the "unavailable" text or the error text, and no exception has
\* left the handler.
C8_StatusAlwaysReplies ==
    (req.cmd = "status" /\ req.done) =>
        (req.reply \in {"signal", "unavailable", "error"} /\ ~req.escaped)

\* C9: no step of a command handler changes last_signal or is_running.
C9_HandlersReadOnly ==
    [][ ( /\ pc' # pc
          /\ \/ pc \in {"h_start", "h_help", "st_wait", "st_eval", "st_send",
                        "st_err", "in_run", "in_test", "in_dir", "in_reply"}
             \/ pc = "listening" /\ pc' # "kbi" )
        => (last_signal' = last_signal /\ is_running' = is_running) ]_vars

\* C9 witness: /status delivered a signal whose direction differs from the
\* stored one, and the stored one is still there
C9_Witness ==
    /\ req.cmd = "status" /\ req.done /\ req.reply = "signal"
    /\ last_signal # None
    /\ req.sig.direction # last_signal.direction

\* C10: /info shows the "no data" text exactly when its test of last_signal
\* finds none, and otherwise the direction of the last_signal it reads;
\* when no announcement is between its send and its store, that is the
\* direction of the last notification delivered.
C10_InfoReportsLastSignal ==
    [][ /\ (pc = "in_test" /\ pc' # pc) =>
              /\ (last_signal = None <=> pc' = "in_reply")
              /\ (last_signal = None <=> req'.last = "no data")
              /\ (last_signal # None <=> pc' = "in_dir")
        /\ (pc = "in_dir" /\ pc' # pc) =>
              /\ pc' = "in_reply"
              /\ req'.last = last_signal.direction
              /\ req'.last \in {"BUY", "SELL"}
              /\ (notes # <<>> /\ lpc # "store") => req'.last = notes[Len(notes)]
        /\ (pc = "in_reply" /\ pc' # pc) => req'.last = req.last ]_vars

\* C10 witness: BUY announced, BUY repeated without announcement, SELL
\* announced, and then /info replied SELL
C10_Witness ==
    /\ nIter = 3 /\ nDup = 1 /\ nErr = 0
    /\ notes = <<"BUY", "SELL">>
    /\ iter.n = 3 /\ iter.prev # None /\ iter.prev.timestamp = 1
    /\ last_signal = iter.cur /\ last_signal.timestamp = 3
    /\ req.cmd = "info" /\ req.done /\ req.reply = "info"
    /\ req.last = "SELL"

\* C11 (as claimed): the process ends abnormally only when the required
\* configuration is missing.
C11_OnlyConfigEndsProcess ==
    pc \in {"failed", "crit"} => ~config_ok

\* C11 (amended): the process ends only from the configuration check
\* (before the thread is started and before anything is sent), from the
\* except clause entered when the startup message could not be sent, or
\* after the stop request; no step of the polling loop and no step of a
\* command handler, failing or not, ends it.
C11_EndsOnlyAtStartupOrStop ==
    [][ /\ (pc' = "failed" /\ pc # "failed") =>
              (pc = "config" /\ ~config_ok /\ lpc = "idle" /\ nIter = 0
               /\ startNotes = 0 /\ notes = <<>>)
        /\ (pc' = "crit" /\ pc # "crit") =>
              (pc = "started" /\ startNotes' = 0 /\ nReq = 0)
        /\ (pc' = "exit" /\ pc # "exit") => pc \in {"crit", "kbi_send"}
        /\ (lpc' # lpc /\ lpc # "idle") => pc' = pc
        /\ (pc' # pc /\ pc \in {"h_start", "h_help", "st_wait", "st_eval", "st_send",
                                 "st_err", "in_run", "in_test", "in_dir", "in_reply"})
              => pc' \in {"listening", "st_eval", "st_send", "st_err", "in_test",
                          "in_dir", "in_reply"} ]_vars

\* C11 witness: an iteration of the loop ended in its except clause, an
\* exception left a command handler, and the process is still listening
C11_Witness ==
    /\ pc = "listening" /\ lpc \notin {"idle", "exited"}
    /\ nErr >= 1
    /\ req.done /\ req.escaped

\* C12 (as claimed): at most one call is in progress on the exchange client
\* and at most one on the Telegram client.
C12_ClientsUsedSequentially ==
    ExchangeCalls <= 1 /\ BotCalls <= 1

\* C13: last_signal is only ever replaced as a whole by the Signal the
\* iteration's evaluation returned, and never goes back to None; the two
\* reads of /info therefore never fail, and the direction shown is the one
\* stored when it is read.
C13_WholeSignalNeverReset ==
    [][ /\ (last_signal' # last_signal) =>
              (/\ lpc = "store" /\ lpc' = "sleep"
               /\ last_signal' = iter.cur /\ last_signal' # None
               /\ last_signal'.timestamp = iter.n
               /\ last_signal'.direction \in {"BUY", "SELL"})
        /\ (last_signal # None) => (last_signal' # None)
        /\ (pc = "in_dir" /\ pc' # pc) =>
              (/\ last_signal # None
               /\ ~req'.escaped /\ ~req'.done
               /\ req'.last = last_signal.direction) ]_vars

\* C13 witness: /info has read the direction of a signal that replaced an
\* earlier one
C13_Witness ==
    /\ pc = "in_reply" /\ req.cmd = "info" /\ ~req.escaped
    /\ Len(notes) = 2 /\ last_signal.timestamp >= 2
    /\ req.last = last_signal.direction

\* C14: the "bot started" message is delivered at most once, and it has
\* been delivered exactly once whenever the listener is running or a
\* command has been dispatched.
C14_OneStartupNotification ==
    /\ startNotes <= 1
    /\ (pc \in {"listening", "h_start", "h_help", "st_wait", "st_eval", "st_send",
                 "st_err", "in_run", "in_test", "in_dir", "in_reply"}
          => startNotes = 1)
    /\ (nReq > 0 => startNotes = 1)
    /\ (pc \in {"config", "failed", "boot", "started", "crit"} => startNotes = 0)

\* C14 witness: a command was handled after the startup message
C14_Witness ==
    /\ pc = "listening" /\ nReq = 1 /\ req.done /\ startNotes = 1

\* C15 (as claimed): at the end of an iteration whose evaluation returned a
\* Signal with no signal stored or a different direction stored,
\* last_signal is that Signal and one send has been made, whatever the
\* send did.
C15_StoredWhateverTheSend ==
    (/\ lpc = "check" /\ iter.n > 0
     /\ iter.cur # None
     /\ (iter.prev = None \/ iter.cur.direction # iter.prev.direction))
    => (iter.sends = 1 /\ last_signal = iter.cur)

\* C15 (amended): at the end of such an iteration exactly one send has been
\* made; if it returned normally last_signal is that Signal, and if it
\* raised last_signal is what it was before the iteration and the except
\* clause has run.
C15_StoredIffSendReturned ==
    (/\ lpc = "check" /\ iter.n > 0
     /\ iter.cur # None
     /\ (iter.prev = None \/ iter.cur.direction # iter.prev.direction))
    => /\ iter.sends = 1
       /\ iter.delivered = 1 => (last_signal = iter.cur /\ iter.stored
                                  /\ iter.errlogs = 0)
       /\ iter.delivered = 0 => (last_signal = iter.prev /\ ~iter.stored
                                  /\ iter.errlogs = 1)

\* C15 witness: the send of a changed direction raised, and the iteration
\* ended with the previously stored signal still in place
C15_Witness ==
    /\ lpc = "check" /\ iter.n >= 2
    /\ iter.prev # None /\ iter.cur # None
    /\ iter.cur.direction # iter.prev.direction
    /\ iter.sends = 1 /\ iter.delivered = 0
    /\ last_signal = iter.prev

\* C16 (as claimed): from the start of the polling thread until the first
\* stop request, is_running is true.
C16_RunningFromLaunch ==
    (lpc # "idle" /\ afterStop = "none") => is_running

\* C17: an iteration makes one evaluation and then at most one send; when
\* it has ended, the sleep it took is the 60-second one if the except
\* clause ran (the send raised) and the 900-second one otherwise.
C17_OneEvalThenFixedSleep ==
    /\ iter.evals <= 1 /\ iter.sends <= 1 /\ iter.errlogs <= 1
    /\ iter.n = nIter
    /\ (lpc \in {"decide", "send"}) => (iter.evals = 1 /\ iter.sends = 0)
    /\ (lpc \in {"store", "except"}) => iter.evals = 1
    /\ (lpc = "check" /\ iter.n > 0) =>
          /\ iter.evals = 1
          /\ slept \in {60, 900}
          /\ (slept = 60 <=> iter.errlogs = 1)
          /\ (iter.errlogs = 1 <=>
                (iter.raised \/ (iter.sends = 1 /\ iter.delivered = 0)))
    /\ (lpc = "sleep") => iter.errlogs = 0
    /\ (lpc = "sleep60") => iter.errlogs = 1

\* C17 witness: iterations that announced, suppressed a repeat and failed
\* to send have all ended, the last one after the 60-second sleep
C17_Witness ==
    /\ lpc = "check" /\ nIter = 3
    /\ Len(notes) = 1 /\ nDup = 1 /\ nErr = 1
    /\ iter.errlogs = 1 /\ slept = 60

\* C18 (as claimed): in every state last_signal is None iff no automatic
\* notification has been delivered, and otherwise its direction is that of
\* the last one delivered.
C18_StoredIsLastDelivered ==
    /\ (last_signal = None <=> notes = <<>>)
    /\ (notes # <<>> => last_signal.direction = notes[Len(notes)])

\* C18 (amended): last_signal is written only by the loop's assignment
\* that follows a send that returned, and a send that raised leaves it as
\* it was; in every state in which the loop is not between such a send and
\* that assignment, last_signal is None iff no automatic notification has
\* been delivered and otherwise has the direction of the last one
\* delivered; between the two, last_signal is still the previous value;
\* consecutive delivered notifications differ in direction.
C18_StoredIsLastDeliveredOutsideStore ==
    [][ /\ (last_signal' # last_signal) =>
              (lpc = "store" /\ iter.delivered = 1 /\ last_signal' = cur)
        /\ (lpc = "send" /\ lpc' = "except") => last_signal' = last_signal
        /\ (lpc = "except" /\ lpc' # lpc) => last_signal' = last_signal
        /\ (lpc' # "store") =>
              /\ (last_signal' = None <=> notes' = <<>>)
              /\ (notes' # <<>> => last_signal'.direction = notes'[Len(notes')])
        /\ (lpc' = "store") =>
              /\ last_signal' = iter'.prev
              /\ notes' # <<>> /\ notes'[Len(notes')] = cur'.direction
              /\ (last_signal' = None <=> Len(notes') = 1)
              /\ (last_signal' # None =>
                    last_signal'.direction = notes'[Len(notes') - 1])
        /\ \A i \in 1..(Len(notes') - 1) : notes'[i] # notes'[i + 1] ]_vars

\* C18 witness: after a failed send and two delivered notifications the
\* stored direction is the one delivered last
C18_Witness ==
    /\ lpc = "check" /\ nErr = 1
    /\ Len(notes) = 2 /\ notes[1] # notes[2]
    /\ last_signal.direction = notes[2]

\* C19: while the process lives and the loop is not stopped, if from some
\* point on every evaluation returns a Signal whose direction differs from
\* the stored one, then the loop eventually delivers it and stores it as
\* last_signal: a send that raised is followed by a new attempt in a later
\* iteration until one returns.
C19_ChangeEventuallyAnnounced ==
    []( [](/\ pc \notin {"config", "failed", "exit"}
           /\ is_running
           /\ (lpc = "decide" =>
                 (/\ cur # None
                  /\ (last_signal = None \/ cur.direction # last_signal.direction))))
        => <>(lpc = "sleep" /\ iter.stored /\ iter.delivered = 1
              /\ last_signal = cur) )

\* C19 witness: the first iteration's send raised, and the second
\* iteration delivered and stored the direction
C19_Witness ==
    /\ lpc = "sleep" /\ iter.n = 2 /\ nErr = 1
    /\ iter.prev = None /\ iter.stored /\ iter.delivered = 1
    /\ last_signal = cur /\ notes = <<cur.direction>>

====
